---- MODULE Spec2Model ----
(***************************************************************************)
(* Voxel Collider Generator (voxel_collider_generator.py).                 *)
(*                                                                         *)
(* The model covers the VoxelGrid class and the operator                   *)
(* VCG_OT_Generate.execute together with the part of the host (Blender)    *)
(* state that execute reads and writes: the scene properties, the active   *)
(* object, the "VCG_Colliders" collection and the objects linked to it.    *)
(*                                                                         *)
(* Lengths are integers in units of a quarter of a metre, so that the      *)
(* default voxel size 0.5 is 2 units and every voxel centre of the meshes  *)
(* below is an integer point.  The arithmetic of the classifier is exact   *)
(* (see HitPositive); none of the inputs below is a tie of it.             *)
(***************************************************************************)
EXTENDS Integers, Sequences, FiniteSets, TLC

VARIABLES
    props,          \* context.scene.vcg_props
    active_object,  \* context.active_object
    collections,    \* number of collections named "VCG_Colliders" in bpy.data
    linked,         \* number of objects linked to the "VCG_Colliders" collection
    pc,             \* position of execute: the stage of the run
    obj,            \* execute's local obj (the target of the run)
    voxel_grid,     \* execute's local voxel_grid
    cursor,         \* position of the running np.ndenumerate loop
    requests,       \* creation requests this run has made to the host, in order
    reports,        \* self.report calls of this run, in order
    runs,           \* number of invocations so far
    before,         \* host state when the run was invoked
    last_run,       \* result of the run that ended just before, if nothing happened since
    call            \* last direct call on a VoxelGrid: operation, argument, outcome

vars == <<props, active_object, collections, linked, pc, obj, voxel_grid, cursor,
          requests, reports, runs, before, last_run, call>>

----------------------------------------------------------------------------
(* Bounds of the model *)

\* number of times the operator is invoked in one behaviour
MaxRuns == 2

\* how far past the grid, on each side and axis, a direct call's index may lie
IdxSlack == 1

----------------------------------------------------------------------------
(* Vectors: triples of integers *)

Add(a, b) == <<a[1] + b[1], a[2] + b[2], a[3] + b[3]>>

Sub(a, b) == <<a[1] - b[1], a[2] - b[2], a[3] - b[3]>>

Scale(a, k) == <<a[1] * k, a[2] * k, a[3] * k>>

Dot(a, b) == a[1] * b[1] + a[2] * b[2] + a[3] * b[3]

MinOf(S) == CHOOSE x \in S : \A y \in S : x <= y

MaxOf(S) == CHOOSE x \in S : \A y \in S : x >= y

\* ceil(a / b) for a >= 0, b > 0
Ceil(a, b) == (a + b - 1) \div b

----------------------------------------------------------------------------
(* VCG_Props *)

\* voxel_size default=0.5, in quarter metres
VoxelSizeDefault == 2

UnitsPerMetre == 2 * VoxelSizeDefault

\* the voxel sizes the user sets: 0.5 and 1.0
VoxelSizes == {VoxelSizeDefault, 2 * VoxelSizeDefault}

DefaultProps ==
    [voxel_size |-> VoxelSizeDefault, use_boxes |-> TRUE, use_spheres |-> TRUE,
     use_capsules |-> FALSE, merge_output |-> FALSE]

PropsSpace ==
    [voxel_size : VoxelSizes, use_boxes : BOOLEAN, use_spheres : BOOLEAN,
     use_capsules : BOOLEAN, merge_output : BOOLEAN]

----------------------------------------------------------------------------
(* Host objects.  matrix_world is a translation by location. *)

None == [name |-> "None"]

CubeVerts(h) == {<<x, y, z>> : x \in {-h, h}, y \in {-h, h}, z \in {-h, h}}

CubeEdges(h) ==
    {e \in SUBSET CubeVerts(h) :
        /\ Cardinality(e) = 2
        /\ \E a \in e : \E b \in e :
              Cardinality({i \in 1..3 : a[i] # b[i]}) = 1}

\* what bpy.ops.mesh.primitive_cube_add(size, location) leaves as the active object
CubeObject(name, size, location) ==
    [name |-> name, type |-> "MESH", location |-> location,
     bound_box |-> CubeVerts(size \div 2), edges |-> CubeEdges(size \div 2)]

\* the unit cube centred at the origin
UnitCube == CubeObject("Cube", UnitsPerMetre, <<0, 0, 0>>)

\* the unit cube moved to (1, 0, 0)
MovedCube == CubeObject("MovedCube", UnitsPerMetre, <<UnitsPerMetre, 0, 0>>)

\* a mesh object with no vertex, edge or polygon, with an all-zero bound_box
EmptyMesh ==
    [name |-> "EmptyMesh", type |-> "MESH", location |-> <<0, 0, 0>>,
     bound_box |-> {<<0, 0, 0>>}, edges |-> {}]

\* the same with the host's fallback bound_box of -1 .. 1
EmptyMeshBox ==
    [name |-> "EmptyMeshBox", type |-> "MESH", location |-> <<0, 0, 0>>,
     bound_box |-> CubeVerts(UnitsPerMetre), edges |-> {}]

Camera ==
    [name |-> "Camera", type |-> "CAMERA", location |-> <<0, 0, 0>>,
     bound_box |-> {<<0, 0, 0>>}, edges |-> {}]

\* what the user can make the active object
Selectable == {None, UnitCube, MovedCube, EmptyMesh, EmptyMeshBox, Camera}

----------------------------------------------------------------------------
(* class VoxelGrid *)

NoGrid == [grid_size |-> <<>>]

\* the indices of an array of shape grid_size
Indices(grid_size) ==
    {<<i, j, k>> : i \in 0..(grid_size[1] - 1), j \in 0..(grid_size[2] - 1),
                   k \in 0..(grid_size[3] - 1)}

\* VoxelGrid.__init__
VoxelGrid(min_corner, max_corner, voxel_size) ==
    LET dims == Sub(max_corner, min_corner)
        grid_size == [i \in 1..3 |-> Ceil(dims[i], voxel_size)]
    IN  [min_corner |-> min_corner, max_corner |-> max_corner,
         voxel_size |-> voxel_size, dims |-> dims, grid_size |-> grid_size,
         grid |-> [idx \in Indices(grid_size) |-> FALSE]]

\* all(0 <= idx < dim for idx, dim in zip(index, self.grid_size))
InRange(g, index) == \A i \in 1..3 : 0 <= index[i] /\ index[i] < g.grid_size[i]

\* numpy's index normalisation: a negative component counts from the end
Wrap(g, index) ==
    [i \in 1..3 |-> IF index[i] < 0 THEN index[i] + g.grid_size[i] ELSE index[i]]

\* numpy accepts a component idx of an axis of length dim iff -dim <= idx < dim
Indexable(g, index) ==
    \A i \in 1..3 : -g.grid_size[i] <= index[i] /\ index[i] < g.grid_size[i]

\* self.grid[index] = True
SetItem(g, index) ==
    IF Indexable(g, index)
    THEN [g |-> [g EXCEPT !.grid[Wrap(g, index)] = TRUE], raised |-> FALSE]
    ELSE [g |-> g, raised |-> TRUE]

\* self.grid[index]
GetItem(g, index) ==
    IF Indexable(g, index)
    THEN [value |-> g.grid[Wrap(g, index)], raised |-> FALSE]
    ELSE [value |-> FALSE, raised |-> TRUE]

\* mark without its range check
mark_Unguarded(g, index) == SetItem(g, index)

\* VoxelGrid.mark
mark(g, index) ==
    IF InRange(g, index) THEN SetItem(g, index) ELSE [g |-> g, raised |-> FALSE]

\* is_marked without its range check
is_marked_Unguarded(g, index) == GetItem(g, index)

\* VoxelGrid.is_marked
is_marked(g, index) ==
    IF InRange(g, index) THEN GetItem(g, index) ELSE [value |-> TRUE, raised |-> FALSE]

\* np.ndenumerate's order of the indices of an array of shape grid_size
ndenumerate(grid_size) ==
    LET ny == grid_size[2]
        nz == grid_size[3]
        N  == grid_size[1] * ny * nz
    IN  [n \in 1..N |-> <<(n - 1) \div (ny * nz), ((n - 1) \div nz) % ny, (n - 1) % nz>>]

\* iter_empty without its test of val
iter_empty_NoFilter(g) == ndenumerate(g.grid_size)

\* VoxelGrid.iter_empty, run to its end
iter_empty(g) == SelectSeq(ndenumerate(g.grid_size), LAMBDA idx : ~g.grid[idx])

----------------------------------------------------------------------------
(* VCG_OT_Generate.execute *)

\* Vector((1, 0.1, 0.3)), times 10
Direction10 == <<10, 1, 3>>

\* hit > 0, for hit = edge.calc_center_median().dot(direction - center), where
\* center2 is twice the edge's centre and center the voxel's centre, in units:
\*   hit > 0  iff  UnitsPerMetre * (center2 . Direction10) > sqrt(110) * (center2 . center)
HitPositive(center2, center) ==
    LET A == UnitsPerMetre * Dot(center2, Direction10)
        B == Dot(center2, center)
        N == Dot(Direction10, Direction10)
    IN  IF B = 0 THEN A > 0
        ELSE IF B > 0 THEN A > 0 /\ A * A > N * B * B
        ELSE A >= 0 \/ A * A < N * B * B

\* twice edge.calc_center_median() of each edge of bm, after bm.transform(world_matrix)
EdgeCenters2(o) ==
    {[edge |-> e,
      center2 |-> LET a == CHOOSE v \in e : TRUE
                      b == CHOOSE v \in e : v # a
                  IN  Add(Add(a, b), Scale(o.location, 2))] : e \in o.edges}

\* min_corner + Vector(idx) * voxel_size + Vector((0.5, 0.5, 0.5)) * voxel_size
VoxelCenter(g, idx) ==
    Add(Add(g.min_corner, Scale(idx, g.voxel_size)),
        Scale(<<1, 1, 1>>, g.voxel_size \div 2))

\* count, after the loop over bm.edges
CrossingCount(o, center) ==
    Cardinality({ec \in EdgeCenters2(o) : HitPositive(ec.center2, center)})

\* count % 2 == 1
Inside(o, center) == CrossingCount(o, center) % 2 = 1

\* the world-space bound_box corners of the target
WorldBounds(o) == {Add(o.location, corner) : corner \in o.bound_box}

MinCorner(o) == [i \in 1..3 |-> MinOf({p[i] : p \in WorldBounds(o)})]

MaxCorner(o) == [i \in 1..3 |-> MaxOf({p[i] : p \in WorldBounds(o)})]

Report(level, message) == [level |-> level, message |-> message]

\* f"VCG_Cube_{idx}"
CubeName(idx) == "VCG_Cube_" \o ToString(idx)

\* lines 79-80: the operator is invoked
Invoke ==
    /\ pc = "Idle"
    /\ runs < MaxRuns
    /\ runs' = runs + 1
    /\ obj' = active_object
    /\ pc' = "Validating"
    /\ voxel_grid' = NoGrid
    /\ cursor' = 0
    /\ requests' = <<>>
    /\ reports' = <<>>
    /\ before' = [collections |-> collections, linked |-> linked,
                  active_object |-> active_object]
    /\ UNCHANGED <<props, active_object, collections, linked, last_run, call>>

\* the check without its test of the type
Invalid_NoneOnly(o) == o = None

\* if not obj or obj.type != 'MESH'
Invalid(o) == o = None \/ o.type # "MESH"

\* lines 82-86
Validate ==
    /\ pc = "Validating"
    /\ IF Invalid(obj)
       THEN /\ reports' = Append(reports, Report("ERROR", "Select a mesh object."))
            /\ pc' = "Failed"
       ELSE /\ reports' = Append(reports,
                   Report("INFO", "Starting voxel-based primitive fitting..."))
            /\ pc' = "Voxelizing"
    /\ UNCHANGED <<props, active_object, collections, linked, obj, voxel_grid, cursor,
                   requests, runs, before, last_run, call>>

\* lines 88-107: bounds, grid, container
Voxelize ==
    /\ pc = "Voxelizing"
    /\ voxel_grid' = VoxelGrid(MinCorner(obj), MaxCorner(obj), props.voxel_size)
    /\ collections' = IF collections = 0 THEN 1 ELSE collections
    /\ cursor' = 1
    /\ pc' = "Classifying"
    /\ UNCHANGED <<props, active_object, linked, obj, requests, reports, runs, before,
                   last_run, call>>

\* lines 110-120, one iteration of np.ndenumerate inside iter_empty
ClassifyVoxel ==
    /\ pc = "Classifying"
    /\ cursor <= Len(ndenumerate(voxel_grid.grid_size))
    /\ LET idx == ndenumerate(voxel_grid.grid_size)[cursor]
       IN  voxel_grid' =
              IF ~voxel_grid.grid[idx] /\ Inside(obj, VoxelCenter(voxel_grid, idx))
              THEN mark(voxel_grid, idx).g
              ELSE voxel_grid
    /\ cursor' = cursor + 1
    /\ UNCHANGED <<props, active_object, collections, linked, pc, obj, requests, reports,
                   runs, before, last_run, call>>

\* the run returning once the fill loop is over
EndClassify_Return ==
    /\ pc = "Classifying"
    /\ cursor > Len(ndenumerate(voxel_grid.grid_size))
    /\ cursor' = 1
    /\ pc' = "Done"
    /\ UNCHANGED <<props, active_object, collections, linked, obj, voxel_grid, requests,
                   reports, runs, before, last_run, call>>

\* lines 122-125: the fill loop is over; bm.free() and the second, empty loop
EndClassify ==
    /\ pc = "Classifying"
    /\ cursor > Len(ndenumerate(voxel_grid.grid_size))
    /\ cursor' = 1
    /\ pc' = "Emitting"
    /\ UNCHANGED <<props, active_object, collections, linked, obj, voxel_grid, requests,
                   reports, runs, before, last_run, call>>

\* the cube placed at the voxel's corner, without the half-voxel offset
CubeRequest_AtCorner(g, idx) ==
    [kind |-> "box", size |-> g.voxel_size,
     location |-> Add(g.min_corner, Scale(idx, g.voxel_size)),
     name |-> CubeName(idx), collection |-> "VCG_Colliders",
     in_scene_collection |-> FALSE]

\* lines 130-137: the cube the host is asked for at voxel idx, and where it ends up
CubeRequest(g, idx) ==
    [kind |-> "box", size |-> g.voxel_size, location |-> VoxelCenter(g, idx),
     name |-> CubeName(idx), collection |-> "VCG_Colliders",
     in_scene_collection |-> FALSE]

\* lines 127-137, one iteration
EmitVoxel ==
    /\ pc = "Emitting"
    /\ cursor <= Len(ndenumerate(voxel_grid.grid_size))
    /\ LET idx  == ndenumerate(voxel_grid.grid_size)[cursor]
           cube == CubeRequest(voxel_grid, idx)
       IN  IF voxel_grid.grid[idx] /\ props.use_boxes
           THEN /\ requests' = Append(requests, cube)
                /\ active_object' = CubeObject(cube.name, cube.size, cube.location)
                /\ linked' = linked + 1
           ELSE UNCHANGED <<requests, active_object, linked>>
    /\ cursor' = cursor + 1
    /\ UNCHANGED <<props, collections, pc, obj, voxel_grid, reports, runs, before,
                   last_run, call>>

\* lines 139-140
Finish ==
    /\ pc = "Emitting"
    /\ cursor > Len(ndenumerate(voxel_grid.grid_size))
    /\ reports' = Append(reports, Report("INFO", "Voxel primitives placed."))
    /\ pc' = "Done"
    /\ UNCHANGED <<props, active_object, collections, linked, obj, voxel_grid, cursor,
                   requests, runs, before, last_run, call>>

NoRun == [done |-> FALSE]

\* execute has returned {'FINISHED'} or {'CANCELLED'}; its locals are gone
Return ==
    /\ pc \in {"Done", "Failed"}
    /\ pc' = "Idle"
    /\ voxel_grid' = NoGrid
    /\ cursor' = 0
    /\ last_run' = IF pc = "Done"
                   THEN [done |-> TRUE, obj |-> obj, count |-> Len(requests),
                         centers |-> {requests[i].location : i \in 1..Len(requests)}]
                   ELSE NoRun
    /\ UNCHANGED <<props, active_object, collections, linked, obj, requests, reports,
                   runs, before, call>>

----------------------------------------------------------------------------
(* The user, between runs *)

SelectObject(o) ==
    /\ pc = "Idle"
    /\ runs < MaxRuns
    /\ active_object' = o
    /\ last_run' = NoRun
    /\ UNCHANGED <<props, collections, linked, pc, obj, voxel_grid, cursor, requests,
                   reports, runs, before, call>>

SetProps(p) ==
    /\ pc = "Idle"
    /\ runs < MaxRuns
    /\ props' = p
    /\ last_run' = NoRun
    /\ UNCHANGED <<active_object, collections, linked, pc, obj, voxel_grid, cursor,
                   requests, reports, runs, before, call>>

NoCall == [op |-> "none"]

Init ==
    /\ props = DefaultProps
    /\ active_object = None
    /\ collections = 0
    /\ linked = 0
    /\ pc = "Idle"
    /\ obj = None
    /\ voxel_grid = NoGrid
    /\ cursor = 0
    /\ requests = <<>>
    /\ reports = <<>>
    /\ runs = 0
    /\ before = [collections |-> 0, linked |-> 0, active_object |-> None]
    /\ last_run = NoRun
    /\ call = NoCall

Next ==
    \/ Invoke
    \/ Validate
    \/ Voxelize
    \/ ClassifyVoxel
    \/ EndClassify
    \/ EmitVoxel
    \/ Finish
    \/ Return
    \/ \E o \in Selectable : SelectObject(o)
    \/ \E p \in PropsSpace : SetProps(p)

Spec == Init /\ [][Next]_vars

----------------------------------------------------------------------------
(* Direct calls on a VoxelGrid: any sequence of mark, is_marked and        *)
(* iter_empty, with indices inside and outside the grid.                   *)

\* max_corner of the grids called directly (min_corner is the origin)
GridCorners == {<<2, 4, 6>>, <<4, 1, 2>>, <<0, 2, 3>>}

\* the indices a direct call passes: the grid's and those up to IdxSlack past it
CallIndices(g) ==
    {<<i, j, k>> : i \in (-IdxSlack)..(g.grid_size[1] - 1 + IdxSlack),
                   j \in (-IdxSlack)..(g.grid_size[2] - 1 + IdxSlack),
                   k \in (-IdxSlack)..(g.grid_size[3] - 1 + IdxSlack)}

\* the enumeration made since the last mark, if any
NoEnum == [made |-> FALSE]

CallMark(index) ==
    /\ LET r == mark(voxel_grid, index)
       IN  /\ voxel_grid' = r.g
           /\ call' = [op |-> "mark", index |-> index, raised |-> r.raised,
                       pre |-> voxel_grid.grid,
                       marks |-> call.marks \cup ({index} \cap DOMAIN voxel_grid.grid),
                       last_enum |-> NoEnum]
    /\ UNCHANGED <<props, active_object, collections, linked, pc, obj, cursor, requests,
                   reports, runs, before, last_run>>

CallIsMarked(index) ==
    /\ LET r == is_marked(voxel_grid, index)
       IN  call' = [op |-> "is_marked", index |-> index, raised |-> r.raised,
                    value |-> r.value, marks |-> call.marks,
                    last_enum |-> call.last_enum]
    /\ UNCHANGED <<props, active_object, collections, linked, pc, obj, voxel_grid, cursor,
                   requests, reports, runs, before, last_run>>

CallIterEmpty ==
    /\ LET r == iter_empty(voxel_grid)
       IN  call' = [op |-> "iter_empty", result |-> r, previous |-> call.last_enum,
                    marks |-> call.marks, last_enum |-> [made |-> TRUE, result |-> r]]
    /\ UNCHANGED <<props, active_object, collections, linked, pc, obj, voxel_grid, cursor,
                   requests, reports, runs, before, last_run>>

GridInit ==
    /\ props = DefaultProps
    /\ active_object = None
    /\ collections = 0
    /\ linked = 0
    /\ pc = "Idle"
    /\ obj = None
    /\ \E c \in GridCorners : \E size \in VoxelSizes :
          voxel_grid = VoxelGrid(<<0, 0, 0>>, c, size)
    /\ cursor = 0
    /\ requests = <<>>
    /\ reports = <<>>
    /\ runs = 0
    /\ before = [collections |-> 0, linked |-> 0, active_object |-> None]
    /\ last_run = NoRun
    /\ call = [op |-> "none", marks |-> {}, last_enum |-> NoEnum]

GridNext ==
    \/ \E index \in CallIndices(voxel_grid) : CallMark(index)
    \/ \E index \in CallIndices(voxel_grid) : CallIsMarked(index)
    \/ CallIterEmpty

GridSpec == GridInit /\ [][GridNext]_vars

\* once invoked, execute runs to its end: the operator is synchronous
RunStep == Validate \/ Voxelize \/ ClassifyVoxel \/ EndClassify \/ EmitVoxel \/ Finish

FairSpec == Spec /\ WF_vars(RunStep)

----------------------------------------------------------------------------
(* Properties *)

\* the target of the run is no object, or an object that is not a mesh
NotAMesh == obj = None \/ obj.type # "MESH"

\* the cells of the run's grid that are marked
Occupied ==
    IF voxel_grid = NoGrid THEN {}
    ELSE {idx \in DOMAIN voxel_grid.grid : voxel_grid.grid[idx]}

\* the positions of the run's requests of a kind
RequestsOfKind(kind) == {i \in 1..Len(requests) : requests[i].kind = kind}

\* C1: a run whose target is no object or not a mesh reports an error and ends
\* Failed without having allocated a grid, created a container or created a
\* primitive: the host state is the one the run was invoked in.
C1_InvalidTargetAborts ==
    (pc # "Idle" /\ NotAMesh) =>
        /\ pc \in {"Validating", "Failed"}
        /\ voxel_grid = NoGrid
        /\ requests = <<>>
        /\ collections = before.collections
        /\ linked = before.linked
        /\ active_object = before.active_object
        /\ pc = "Failed" => reports = <<Report("ERROR", "Select a mesh object.")>>

\* a camera was the target, with the container of an earlier run in place
C1_Witness == pc = "Failed" /\ obj = Camera /\ collections = 1 /\ linked > 0

\* C2: is_marked returns true on every index outside the grid, and on an index
\* of the grid it returns true iff that cell has been marked.
C2_IsMarked ==
    call.op = "is_marked" =>
        /\ ~call.raised
        /\ call.value = (call.index \notin DOMAIN voxel_grid.grid \/ call.index \in call.marks)

\* is_marked was asked about an index with a negative component, on a grid with marks
C2_Witness ==
    /\ call.op = "is_marked"
    /\ call.marks # {}
    /\ \E i \in 1..3 : call.index[i] < 0
    /\ call.value

\* C3: mark never raises; outside the grid it changes no cell, inside it sets
\* exactly the cell of the index and changes no other cell.
C3_Mark ==
    call.op = "mark" =>
        /\ ~call.raised
        /\ DOMAIN voxel_grid.grid = DOMAIN call.pre
        /\ \A idx \in DOMAIN call.pre :
              voxel_grid.grid[idx] = (call.pre[idx] \/ idx = call.index)

\* mark was called with an index past the grid, on a grid with an unmarked cell
C3_Witness ==
    /\ call.op = "mark"
    /\ \E i \in 1..3 : call.index[i] < 0 \/ call.index[i] >= voxel_grid.grid_size[i]
    /\ \E idx \in DOMAIN voxel_grid.grid : ~voxel_grid.grid[idx]
    /\ call.marks # {}

\* lexicographic order of index triples: the row-major scan order
Before(a, b) ==
    \/ a[1] < b[1]
    \/ a[1] = b[1] /\ a[2] < b[2]
    \/ a[1] = b[1] /\ a[2] = b[2] /\ a[3] < b[3]

\* C4: iter_empty enumerates exactly the unmarked indices of the grid, each once,
\* in row-major order, and again the same sequence if no mark came in between.
C4_IterEmpty ==
    call.op = "iter_empty" =>
        /\ {call.result[n] : n \in 1..Len(call.result)} =
              {idx \in DOMAIN voxel_grid.grid : ~voxel_grid.grid[idx]}
        /\ \A m \in 1..Len(call.result) : \A n \in 1..Len(call.result) :
              m < n => Before(call.result[m], call.result[n])
        /\ call.previous.made => call.result = call.previous.result

\* a grid with marked and unmarked cells was enumerated twice with no mark in between
C4_Witness ==
    /\ call.op = "iter_empty"
    /\ call.previous.made
    /\ call.marks # {}
    /\ Len(call.result) >= 2

\* the stage changes of a run
StageChanges ==
    {<<"Idle", "Validating">>, <<"Validating", "Voxelizing">>, <<"Validating", "Failed">>,
     <<"Voxelizing", "Classifying">>, <<"Classifying", "Emitting">>,
     <<"Emitting", "Done">>, <<"Done", "Idle">>, <<"Failed", "Idle">>}

\* C5: a run goes Idle, Validating, Voxelizing, Classifying, Emitting, Done in
\* that order, Failed is entered from Validating only, and a run that has passed
\* validation reaches Done.
C5_Stages ==
    /\ [][pc' # pc => <<pc, pc'>> \in StageChanges]_vars
    /\ (pc = "Voxelizing") ~> (pc = "Done")

\* a run is Done after marking voxels and emitting their boxes
C5_Witness == pc = "Done" /\ Occupied # {} /\ Len(requests) >= 2

\* C6: scenario A: the unit cube at the origin, voxel_size 0.5, boxes only, gives
\* exactly 8 boxes of size 0.5 at the 8 octant centres (+-0.25, +-0.25, +-0.25).
C6_ScenarioA ==
    (/\ pc = "Done"
     /\ obj = UnitCube
     /\ props.voxel_size = VoxelSizeDefault
     /\ props.use_boxes /\ ~props.use_spheres /\ ~props.use_capsules) =>
        /\ Len(requests) = 8
        /\ \A i \in 1..Len(requests) :
              requests[i].kind = "box" /\ requests[i].size = VoxelSizeDefault
        /\ {requests[i].location : i \in 1..Len(requests)} =
              CubeVerts(VoxelSizeDefault \div 2)

\* C7: with boxes enabled and merge mode off, a finished run has made exactly one
\* box per occupied voxel and none for another voxel, each of edge voxel_size,
\* centred at the voxel's centre, in the container, under a name unique in the run.
C7_OneBoxPerVoxel ==
    (pc = "Done" /\ props.use_boxes /\ ~props.merge_output) =>
        /\ Len(requests) = Cardinality(Occupied)
        /\ \A idx \in DOMAIN voxel_grid.grid :
              Cardinality({i \in 1..Len(requests) :
                              requests[i].name = "VCG_Cube_" \o ToString(idx)})
                 = IF voxel_grid.grid[idx] THEN 1 ELSE 0
        /\ \A i \in 1..Len(requests) :
              /\ requests[i].kind = "box"
              /\ requests[i].size = props.voxel_size
              /\ \E idx \in Occupied :
                    /\ requests[i].name = "VCG_Cube_" \o ToString(idx)
                    /\ \A a \in 1..3 :
                          2 * requests[i].location[a] =
                             2 * voxel_grid.min_corner[a]
                                + 2 * idx[a] * props.voxel_size + props.voxel_size
              /\ requests[i].collection = "VCG_Colliders"
              /\ ~requests[i].in_scene_collection
        /\ \A i \in 1..Len(requests) : \A j \in 1..Len(requests) :
              i # j => requests[i].name # requests[j].name
        /\ collections = 1
        /\ linked = before.linked + Len(requests)

\* a run with boxes and without merge mode is Done with several voxels occupied
C7_Witness ==
    /\ pc = "Done" /\ props.use_boxes /\ ~props.merge_output
    /\ Cardinality(Occupied) >= 2
    /\ Cardinality(Occupied) < Cardinality(DOMAIN voxel_grid.grid)

\* C8: in merge mode a finished run with boxes enabled and voxels occupied has
\* made no per-voxel primitive and exactly one merged-mesh request, its last.
C8_MergeMode ==
    (pc = "Done" /\ props.merge_output /\ props.use_boxes /\ Occupied # {}) =>
        /\ RequestsOfKind("box") = {}
        /\ Cardinality(RequestsOfKind("merged_mesh")) = 1
        /\ requests[Len(requests)].kind = "merged_mesh"

\* C9: a run that follows a finished run, with nothing done in between, gives
\* the same number of primitives at the same centres and reuses the container;
\* there is never more than one container.
C9_Idempotent ==
    /\ collections <= 1
    /\ (pc = "Done" /\ last_run.done) =>
          /\ Len(requests) = last_run.count
          /\ {requests[i].location : i \in 1..Len(requests)} = last_run.centers
          /\ collections = before.collections

\* the report says primitives were placed
SaysPlaced(r) == r.message = "Voxel primitives placed."

\* C10: scenario C: with a mesh of no polygon as target the run is Done with no
\* voxel occupied and no primitive, and its completion report says that no
\* primitive was generated.
C10_EmptyMesh ==
    (pc \notin {"Idle", "Validating"} /\ ~NotAMesh /\ obj.edges = {}) =>
        /\ pc # "Failed"
        /\ Occupied = {}
        /\ requests = <<>>
        /\ pc = "Done" =>
              /\ reports[Len(reports)].level = "INFO"
              /\ ~SaysPlaced(reports[Len(reports)])

====
